---- MODULE Spec2Model ----
(***************************************************************************)
(* Bluebeam BPX import service (src/main.py): the import_bpx handler as a  *)
(* state machine, with decode_hex_zlib, extract_pdf_dict_fields and        *)
(* map_tool_kind as operators.                                             *)
(*                                                                         *)
(* Data representation                                                     *)
(*  - A text (Python str) is a sequence of fragments [k, v]: k is the      *)
(*    marker that introduces the fragment ("lit" for plain characters,     *)
(*    "Subj", "IT", "C", "IC", "CA", "LW", "D" for the PDF keys the        *)
(*    extractor's regular expressions look for) and v the sequence of      *)
(*    words that follow it.  The empty text is <<>>.                       *)
(*  - A numeric word is a sequence of characters over digits and ".".      *)
(*  - A hex payload is [enc, text]: enc says what the characters are       *)
(*    (empty, whitespace only, not hexadecimal, hexadecimal of bytes that  *)
(*    are not a zlib stream, hexadecimal of the deflated text).            *)
(*  - The XML document is the pre-order sequence of its BluebeamRevuToolSet*)
(*    and ToolChestItem elements; parent is the position of the nearest    *)
(*    enclosing toolset element (0: none).                                 *)
(***************************************************************************)
EXTENDS Naturals, Sequences, FiniteSets, TLC

VARIABLES
    pc,                \* position in import_bpx
    apiKey,            \* IMPORT_API_KEY
    authorization,     \* the request's Authorization header
    xml_text,          \* text returned by sb_download (its description)
    root,              \* parsed document (its description)
    profile_id,
    toolset_els, ts_idx, title, toolset_id,
    items, i,
    cur,               \* locals kept between the Tool and the Preset insert
    toolsets_imported, tools_imported, presets_created,
    warnings,
    db,                \* record store: table -> sequence of rows
    nextId,            \* next identifier the record store generates
    calls,             \* every collaborator call issued, in order
    prov,              \* history: record id -> the elements it was made from
    summary,           \* the returned summary, or NoSummary
    abortCause         \* what raised, when the run was aborted

vars == <<pc, apiKey, authorization, xml_text, root, profile_id, toolset_els,
          ts_idx, title, toolset_id, items, i, cur, toolsets_imported,
          tools_imported, presets_created, warnings, db, nextId, calls, prov,
          summary, abortCause>>

----------------------------------------------------------------------------
(* Bounds of the model *)

MaxNodes == 3          \* elements of an enumerated document

----------------------------------------------------------------------------
(* Texts *)

EmptyText == <<>>
Lit(s) == <<[k |-> "lit", v |-> <<s>>]>>
Frag(key, words) == [k |-> key, v |-> words]

\* re.search(key...): position of the first fragment introduced by key, 0 if none
RECURSIVE FirstFrom(_, _, _)
FirstFrom(raw, key, n) ==
    IF n > Len(raw) THEN 0
    ELSE IF raw[n].k = key THEN n
    ELSE FirstFrom(raw, key, n + 1)

Search(raw, key) == FirstFrom(raw, key, 1)

----------------------------------------------------------------------------
(* decode_hex_zlib *)

Hex(enc, text) == [enc |-> enc, text |-> text]
NoHex == Hex("empty", EmptyText)            \* "" (also: the child is missing)
Deflated(text) == Hex("zlib", text)

\* hex_str.strip() is empty
StripsToEmpty(h) == h.enc \in {"empty", "ws"}

\* binascii.unhexlify or zlib.decompress raises
DecodeRaises(h) == h.enc \in {"badhex", "notzlib"}

\* the returned text, when nothing raises
decode_hex_zlib(h) == IF StripsToEmpty(h) THEN EmptyText ELSE h.text

\* Python truthiness of a hex string: only "" is falsy
Falsy(h) == h.enc = "empty"

----------------------------------------------------------------------------
(* extract_pdf_dict_fields *)

Digits == {"0", "1", "2", "3", "4", "5", "6", "7", "8", "9"}

RECURSIVE CountIn(_, _)
CountIn(w, S) ==
    IF w = <<>> THEN 0
    ELSE (IF Head(w) \in S THEN 1 ELSE 0) + CountIn(Tail(w), S)

\* float(x) accepts a word over [0-9.] iff it has a digit and at most one "."
FloatOk(w) == CountIn(w, Digits) >= 1 /\ CountIn(w, {"."}) <= 1

AllFloatOk(ws) == \A n \in 1..Len(ws) : FloatOk(ws[n])

Present(raw, key) == Search(raw, key) # 0
Words(raw, key) == raw[Search(raw, key)].v

\* float() raises ValueError in extract_array, extract_num or the /D list
ExtractRaises(raw) ==
    \E key \in {"C", "IC", "CA", "LW", "D"} :
        Present(raw, key) /\ ~AllFloatOk(Words(raw, key))

NoSubj == ""
ExtractSubj(raw) ==
    IF Present(raw, "Subj") /\ Words(raw, "Subj") # <<>>
    THEN Words(raw, "Subj")[1] ELSE NoSubj

\* the type token as its dot-separated segments; <<>> is None
NoToken == <<>>
ExtractIt(raw) ==
    IF Present(raw, "IT") THEN <<Words(raw, "IT")[1]>> ELSE NoToken

FirstThree(ws) == SubSeq(ws, 1, IF Len(ws) < 3 THEN Len(ws) ELSE 3)

StyleKeys(raw) ==
    {k \in {"C", "IC", "CA", "LW", "D"} : Present(raw, k)}

StyleName(k) ==
    CASE k = "C" -> "stroke_rgb" [] k = "IC" -> "fill_rgb"
      [] k = "CA" -> "opacity" [] k = "LW" -> "line_width" [] k = "D" -> "dash"

StyleValue(raw, k) ==
    CASE k \in {"C", "IC"} -> FirstThree(Words(raw, k))
      [] k \in {"CA", "LW"} -> <<Words(raw, k)[1]>>
      [] k = "D" -> Words(raw, k)

\* the style dict, as the set of its (name, value) items
ExtractStyle(raw) ==
    {<<StyleName(k), StyleValue(raw, k)>> : k \in StyleKeys(raw)}

----------------------------------------------------------------------------
(* map_tool_kind *)

TYPE_MAP ==
    [annotationpolyline |-> "length", annotationline |-> "length",
     annotationlength |-> "length", annotationmeasureperimeter |-> "length",
     annotationpolygon |-> "area", annotationarea |-> "area",
     annotationrectangle |-> "area", annotationsquare |-> "area",
     annotationcount |-> "count", annotationcloudplus |-> "count"]

SKIP_TYPES ==
    {"annotationbrxstamp", "annotationcircle", "annotationimage",
     "annotationstamp", "annotationfreetext", "annotationcallout"}

\* str.lower() on the spellings the model's documents use
LowerTable ==
    [AnnotationPolygon |-> "annotationpolygon",
     AnnotationStamp |-> "annotationstamp",
     ANNOTATIONSTAMP |-> "annotationstamp",
     AnnotationLine |-> "annotationline",
     AnnotationCount |-> "annotationcount",
     AnnotationNote |-> "annotationnote",
     Bluebeam |-> "bluebeam"]

Lower(s) == IF s \in DOMAIN LowerTable THEN LowerTable[s] ELSE s

\* classification by the first segment
map_tool_kind_FirstSegment(it) ==
    IF it = NoToken THEN "count"
    ELSE LET short == Lower(it[1])
         IN  IF short \in SKIP_TYPES THEN "skip"
             ELSE IF short \in DOMAIN TYPE_MAP THEN TYPE_MAP[short]
             ELSE "count"

\* classification by the table alone
map_tool_kind_TableOnly(it) ==
    IF it = NoToken THEN "count"
    ELSE LET short == Lower(it[Len(it)])
         IN  IF short \in DOMAIN TYPE_MAP THEN TYPE_MAP[short] ELSE "count"

map_tool_kind(it) ==
    IF it = NoToken THEN "count"
    ELSE LET short == Lower(it[Len(it)])
         IN  IF short \in SKIP_TYPES THEN "skip"
             ELSE IF short \in DOMAIN TYPE_MAP THEN TYPE_MAP[short]
             ELSE "count"

----------------------------------------------------------------------------
(* The document *)

TsNode(p, h) == [kind |-> "ts", parent |-> p, hex |-> h]
ItemNode(p, h) == [kind |-> "item", parent |-> p, hex |-> h]

\* toolset elements that enclose element n, nearest first
RECURSIVE Ancestors(_, _)
Ancestors(doc, n) ==
    IF doc[n].parent = 0 THEN {}
    ELSE {doc[n].parent} \cup Ancestors(doc, doc[n].parent)

Positions(doc) == [n \in 1..Len(doc) |-> n]

\* root.findall(".//BluebeamRevuToolSet"): every toolset element, document order
FindToolsets(doc) ==
    LET IsTs(n) == doc[n].kind = "ts"
    IN  SelectSeq(Positions(doc), IsTs)

\* ts.findall(".//ToolChestItem"): every item element below ts, at any depth
FindItems(doc, ts) ==
    LET IsBelow(n) == doc[n].kind = "item" /\ ts \in Ancestors(doc, n)
    IN  SelectSeq(Positions(doc), IsBelow)

AreaText ==
    <<Frag("Subj", <<"Wall">>), Frag("IT", <<"AnnotationPolygon">>),
      Frag("CA", << <<"0", ".", "5">> >>),
      Frag("C", << <<"1">>, <<"0">>, <<"0">> >>)>>
SkipText == <<Frag("IT", <<"AnnotationStamp">>)>>
BadNumText ==
    <<Frag("IT", <<"AnnotationLine">>),
      Frag("LW", << <<"1", ".", "2", ".", "3">> >>)>>

\* payloads of the enumerated documents: Title texts and Raw texts
TitleChoices ==
    <<NoHex, Hex("badhex", EmptyText), Deflated(Lit("Recent Tools")),
      Deflated(Lit("Walls"))>>

RawChoices ==
    <<NoHex, Hex("ws", EmptyText), Hex("notzlib", EmptyText),
      Deflated(AreaText), Deflated(SkipText), Deflated(BadNumText)>>

Choices(kind) == IF kind = "ts" THEN TitleChoices ELSE RawChoices

\* toolset elements enclosing element m (m included), by the parent listing
RECURSIVE Up(_, _)
Up(par, m) == IF m = 0 THEN {0} ELSE {m} \cup Up(par, par[m])

\* elements that may enclose element k of a pre-order listing
OpenAt(kinds, par, k) ==
    IF k = 1 THEN {0}
    ELSE Up(par, par[k - 1]) \cup (IF kinds[k - 1] = "ts" THEN {k - 1} ELSE {})

\* element k lies below an earlier toolset element that is still open
ValidAt(kinds, par, k) == par[k] < k /\ par[k] \in OpenAt(kinds, par, k)

\* kinds and parents are those of a tree listed in document order
RECURSIVE ValidUpTo(_, _, _)
ValidUpTo(kinds, par, n) ==
    n = 0 \/ (ValidUpTo(kinds, par, n - 1) /\ ValidAt(kinds, par, n))

ValidShape(kinds, par, n) == ValidUpTo(kinds, par, n)

ValidPayloads(kinds, hx, n) == \A k \in 1..n : hx[k] <= Len(Choices(kinds[k]))

\* the trees of n elements, as <<kinds, parents>>
Shapes(n) ==
    {s \in [1..n -> {"ts", "item"}] \X [1..n -> 0..(n - 1)] :
        ValidShape(s[1], s[2], n)}

\* the choice of a payload for each element
Payloads(kinds, n) ==
    {hx \in [1..n -> 1..Len(RawChoices)] : ValidPayloads(kinds, hx, n)}

MkDoc(kinds, par, hx, n) ==
    [k \in 1..n |->
        [kind |-> kinds[k], parent |-> par[k], hex |-> Choices(kinds[k])[hx[k]]]]

PresetStride == 1000

\* a toolset whose only tool follows PresetStride empty items, then a second
\* toolset with one tool
LongDoc ==
    <<TsNode(0, Deflated(Lit("Walls")))>>
    \o [n \in 1..PresetStride |-> ItemNode(1, NoHex)]
    \o <<ItemNode(1, Deflated(AreaText)),
         TsNode(0, Deflated(Lit("Doors"))),
         ItemNode(PresetStride + 3, Deflated(AreaText))>>

\* A document is held by its description: the long document, or the kinds,
\* parents and payload choices of its n elements.  Elements lists it.
Described(n, kinds, par, hx) ==
    [long |-> FALSE, n |-> n, kinds |-> kinds, par |-> par, hx |-> hx]
TheLongDoc == [long |-> TRUE, n |-> 0, kinds |-> <<>>, par |-> <<>>, hx |-> <<>>]
NoDoc == Described(0, <<>>, <<>>, <<>>)

Elements(d) == IF d.long THEN LongDoc ELSE MkDoc(d.kinds, d.par, d.hx, d.n)

WellFormed(d) == [wellformed |-> TRUE, doc |-> d]
Malformed == [wellformed |-> FALSE, doc |-> NoDoc]

----------------------------------------------------------------------------
(* Collaborators *)

Tables == {"bluebeam_profiles", "bluebeam_toolsets", "bluebeam_tools", "presets"}

Call(op, table, ok) == [op |-> op, table |-> table, ok |-> ok]

\* an insert that first deletes the rows the table holds
StoredReplacing(table, row) ==
    /\ db' = [db EXCEPT ![table] = <<("id" :> nextId) @@ row>>]
    /\ nextId' = nextId + 1
    /\ calls' = Append(calls, Call("insert", table, TRUE))

\* sb_insert that succeeds: the store keeps the row under a generated id
Stored(table, row) ==
    /\ db' = [db EXCEPT ![table] = Append(@, ("id" :> nextId) @@ row)]
    /\ nextId' = nextId + 1
    /\ calls' = Append(calls, Call("insert", table, TRUE))

\* sb_insert that raises RuntimeError (status >= 300): nothing is stored
Refused(table) ==
    /\ calls' = Append(calls, Call("insert", table, FALSE))
    /\ UNCHANGED <<db, nextId>>

Origin(table, ts_el, item_el, tsi, n) ==
    [table |-> table, ts_el |-> ts_el, item_el |-> item_el, ts_idx |-> tsi, i |-> n]

----------------------------------------------------------------------------
(* import_bpx *)

NoSummary == [returned |-> FALSE]
NoCur == [name |-> "", tool_kind |-> "", style |-> {}, tool_id |-> 0]

ApiKeys == {"", "k1"}
Headers == {"", "Bearer ", "Bearer k1", "Bearer k2"}

Init ==
    /\ pc = "auth"
    /\ apiKey \in ApiKeys
    /\ authorization \in Headers
    /\ xml_text = Malformed
    /\ root = NoDoc
    /\ profile_id = 0
    /\ toolset_els = <<>>
    /\ ts_idx = 0
    /\ title = EmptyText
    /\ toolset_id = 0
    /\ items = <<>>
    /\ i = 0
    /\ cur = NoCur
    /\ toolsets_imported = 0
    /\ tools_imported = 0
    /\ presets_created = 0
    /\ warnings = <<>>
    /\ db = [t \in Tables |-> <<>>]
    /\ nextId = 1
    /\ calls = <<>>
    /\ prov = <<>>
    /\ summary = NoSummary
    /\ abortCause = "none"

\* the elements of the parsed document
Root == Elements(root)

locals == <<xml_text, root, profile_id, toolset_els, ts_idx, title, toolset_id,
            items, i, cur>>
counters == <<toolsets_imported, tools_imported, presets_created>>
store == <<db, nextId, calls, prov>>
request == <<apiKey, authorization>>

Abort(cause) ==
    /\ pc' = "aborted"
    /\ abortCause' = cause

\* the header compared without looking at whether a secret is configured
AuthorizedByHeaderAlone == authorization = "Bearer " \o apiKey

\* line 146-147
Authorized == apiKey # "" /\ authorization = "Bearer " \o apiKey

CheckAuth ==
    /\ pc = "auth"
    /\ \/ /\ ~Authorized
          /\ pc' = "rejected"
       \/ /\ Authorized
          /\ pc' = "download"
    /\ UNCHANGED <<locals, counters, warnings, store, summary, abortCause, request>>

\* line 153, for stored documents of up to max elements (or the long one)
DownloadUpTo(max) ==
    /\ pc = "download"
    /\ \/ /\ calls' = Append(calls, Call("download", "storage", FALSE))
          /\ Abort("download")
          /\ UNCHANGED xml_text
       \/ /\ calls' = Append(calls, Call("download", "storage", TRUE))
          /\ pc' = "profile"
          /\ UNCHANGED abortCause
          /\ \/ xml_text' = Malformed
             \/ xml_text' = WellFormed(TheLongDoc)
             \/ \E n \in 0..max :
                  \E s \in Shapes(n) :
                     \E hx \in Payloads(s[1], n) :
                        xml_text' = WellFormed(Described(n, s[1], s[2], hx))
    /\ UNCHANGED <<root, profile_id, toolset_els, ts_idx, title, toolset_id,
                   items, i, cur, counters, warnings, db, nextId, prov, summary,
                   request>>

Download == DownloadUpTo(MaxNodes)

None == "None"
ProjectId == "project-1"       \* req.project_id
Filename == "unknown.bpx"      \* req.filename

ProfileRow ==
    [project_id |-> ProjectId, filename |-> Filename, version_label |-> None,
     created_by |-> "00000000-0000-0000-0000-000000000000"]

\* lines 156-162
CreateProfile ==
    /\ pc = "profile"
    /\ \/ /\ Refused("bluebeam_profiles")
          /\ Abort("profile")
          /\ UNCHANGED <<profile_id, prov>>
       \/ /\ Stored("bluebeam_profiles", ProfileRow)
          /\ prov' = Append(prov, Origin("bluebeam_profiles", 0, 0, 0, 0))
          /\ profile_id' = nextId
          /\ pc' = "parse"
          /\ UNCHANGED abortCause
    /\ UNCHANGED <<xml_text, root, toolset_els, ts_idx, title, toolset_id,
                   items, i, cur, counters, warnings, summary, request>>

\* a handler that would undo the Profile when the document does not parse
OnMalformedRollback ==
    /\ Abort("parse")
    /\ db' = [db EXCEPT !["bluebeam_profiles"] = <<>>]
    /\ UNCHANGED <<root, toolset_els, ts_idx, counters, warnings, nextId, calls,
                   prov>>

\* line 165: ET.fromstring raises ParseError, which nothing catches
OnMalformed ==
    /\ Abort("parse")
    /\ UNCHANGED <<root, toolset_els, ts_idx, counters, warnings, store>>

\* lines 165-171
Parse ==
    /\ pc = "parse"
    /\ \/ /\ ~xml_text.wellformed
          /\ OnMalformed
       \/ /\ xml_text.wellformed
          /\ root' = xml_text.doc
          /\ toolsets_imported' = 0
          /\ tools_imported' = 0
          /\ presets_created' = 0
          /\ warnings' = <<>>
          /\ toolset_els' = FindToolsets(Elements(xml_text.doc))
          /\ ts_idx' = 0
          /\ pc' = "toolset"
          /\ UNCHANGED <<abortCause, store>>
    /\ UNCHANGED <<xml_text, profile_id, title, toolset_id, items, i, cur,
                   summary, request>>

\* lines 176, 178: the positional fallback title
FallbackTitle(idx) == Lit("Toolset " \o ToString(idx + 1))

\* lines 174-179: the title the loop body works with
ResolveTitle(h, idx) ==
    IF Falsy(h) \/ DecodeRaises(h) THEN FallbackTitle(idx)
    ELSE decode_hex_zlib(h)

\* line 179
TitleWarning(idx) == [kind |-> "toolset_title", idx |-> idx]
TitleWarnings(h, idx) ==
    IF ~Falsy(h) /\ DecodeRaises(h) THEN <<TitleWarning(idx)>> ELSE <<>>

\* line 181
Excluded(t) == t \in {Lit("Recent Tools"), Lit("Seneste vaerktoejer")}

\* numbering the created Toolsets instead of the elements
ToolsetSortIndexDense(idx) == toolsets_imported

\* line 187
ToolsetSortIndex(idx) == idx

\* lines 184-189
ToolsetRow(pid, t, idx) ==
    [profile_id |-> pid, title |-> t, sort_index |-> ToolsetSortIndex(idx),
     source_path |-> None]

\* a handler that would record the refusal and go on with the next toolset
ToolsetRefusedContinue(h) ==
    /\ Refused("bluebeam_toolsets")
    /\ warnings' = Append(warnings \o TitleWarnings(h, ts_idx),
                          [kind |-> "toolset", idx |-> ts_idx])
    /\ ts_idx' = ts_idx + 1
    /\ UNCHANGED <<pc, abortCause, toolset_id, items, i, toolsets_imported, prov>>

\* line 184: sb_insert raises, which nothing catches
ToolsetRefused(h) ==
    /\ Refused("bluebeam_toolsets")
    /\ Abort("toolset")
    /\ warnings' = warnings \o TitleWarnings(h, ts_idx)
    /\ UNCHANGED <<ts_idx, toolset_id, items, i, toolsets_imported, prov>>

\* lines 173-193: one pass of the toolset loop, up to the inner loop
ToolsetStep ==
    /\ pc = "toolset"
    /\ ts_idx < Len(toolset_els)
    /\ LET ts == toolset_els[ts_idx + 1]
           h == Root[ts].hex
           t == ResolveTitle(h, ts_idx)
       IN  /\ title' = t
           /\ \/ /\ Excluded(t)
                 /\ warnings' = warnings \o TitleWarnings(h, ts_idx)
                 /\ ts_idx' = ts_idx + 1
                 /\ UNCHANGED <<pc, abortCause, toolset_id, items, i,
                                toolsets_imported, store>>
              \/ /\ ~Excluded(t)
                 /\ ToolsetRefused(h)
              \/ /\ ~Excluded(t)
                 /\ warnings' = warnings \o TitleWarnings(h, ts_idx)
                 /\ Stored("bluebeam_toolsets", ToolsetRow(profile_id, t, ts_idx))
                 /\ prov' = Append(prov,
                        Origin("bluebeam_toolsets", ts, 0, ts_idx, 0))
                 /\ toolset_id' = nextId
                 /\ toolsets_imported' = toolsets_imported + 1
                 /\ items' = FindItems(Root, ts)
                 /\ i' = 0
                 /\ pc' = "item"
                 /\ UNCHANGED <<ts_idx, abortCause>>
    /\ UNCHANGED <<xml_text, root, profile_id, toolset_els, cur, tools_imported,
                   presets_created, summary, request>>

\* line 209
ToolName(subj, idx) ==
    IF subj = NoSubj THEN "Tool " \o ToString(idx + 1) ELSE subj

\* numbering the created Tools instead of the elements
ToolSortIndexCounted(idx) == tools_imported

\* line 215
ToolSortIndex(idx) == idx

\* lines 211-219
ToolRow(tsid, name, kind, idx, raw, style, it, t) ==
    [toolset_id |-> tsid, name |-> name, tool_kind |-> kind,
     sort_index |-> ToolSortIndex(idx), raw_decoded |-> raw,
     style_json |-> style, mapping_json |-> [it |-> it, category |-> t]]

\* the toolset index left out of the key
PresetSortIndexNoToolset(tsi, idx) == idx

\* line 230
PresetSortIndex(tsi, idx) == tsi * PresetStride + idx

\* a Preset that is not tied to its Tool
PresetRowUnowned(name, kind, t, style, tsi, idx, tool_id) ==
    [project_id |-> ProjectId, name |-> name, tool_type |-> kind,
     category |-> t, style_json |-> style, default_tags_json |-> {},
     sort_index |-> tsi * PresetStride + idx, bluebeam_tool_id |-> 0]

\* lines 223-232
PresetRow(name, kind, t, style, tsi, idx, tool_id) ==
    [project_id |-> ProjectId, name |-> name, tool_type |-> kind,
     category |-> t, style_json |-> style, default_tags_json |-> {},
     sort_index |-> PresetSortIndex(tsi, idx), bluebeam_tool_id |-> tool_id]

\* the item named by its one-based number
DecodeWarningOneBased(t, idx) ==
    [kind |-> "tool_decode", title |-> t, item |-> idx + 1]

\* line 201
DecodeWarning(t, idx) == [kind |-> "tool_decode", title |-> t, item |-> idx]

\* line 237
PresetWarning(name) ==
    [kind |-> "preset", name |-> name, err |-> "Insert presets failed"]

\* the row import_bpx builds for item number idx of a toolset (lines 199-219)
ToolRowFor(doc, tsid, t, item, idx) ==
    LET raw == decode_hex_zlib(doc[item].hex)
        subj == ExtractSubj(raw)
        it == ExtractIt(raw)
    IN  ToolRow(tsid, ToolName(subj, idx), map_tool_kind(it), idx, raw,
                ExtractStyle(raw), it, t)

\* lines 194-220: one pass of the item loop, up to the Tool insert
ItemStep ==
    /\ pc = "item"
    /\ i < Len(items)
    /\ LET item == items[i + 1]
           raw_hex == Root[item].hex
           raw == decode_hex_zlib(raw_hex)
           row == ToolRowFor(Root, toolset_id, title, item, i)
       IN  \/ /\ Falsy(raw_hex)
              /\ i' = i + 1
              /\ UNCHANGED <<pc, abortCause, warnings, cur, tools_imported, store>>
           \/ /\ ~Falsy(raw_hex)
              /\ DecodeRaises(raw_hex)
              /\ warnings' = Append(warnings, DecodeWarning(title, i))
              /\ i' = i + 1
              /\ UNCHANGED <<pc, abortCause, cur, tools_imported, store>>
           \/ /\ ~Falsy(raw_hex)
              /\ ~DecodeRaises(raw_hex)
              /\ ExtractRaises(raw)
              /\ Abort("extract")
              /\ UNCHANGED <<i, warnings, cur, tools_imported, store>>
           \/ /\ ~Falsy(raw_hex)
              /\ ~DecodeRaises(raw_hex)
              /\ ~ExtractRaises(raw)
              /\ row.tool_kind = "skip"
              /\ i' = i + 1
              /\ UNCHANGED <<pc, abortCause, warnings, cur, tools_imported, store>>
           \/ /\ ~Falsy(raw_hex)
              /\ ~DecodeRaises(raw_hex)
              /\ ~ExtractRaises(raw)
              /\ row.tool_kind # "skip"
              /\ Refused("bluebeam_tools")
              /\ Abort("tool")
              /\ UNCHANGED <<i, warnings, cur, tools_imported, prov>>
           \/ /\ ~Falsy(raw_hex)
              /\ ~DecodeRaises(raw_hex)
              /\ ~ExtractRaises(raw)
              /\ row.tool_kind # "skip"
              /\ Stored("bluebeam_tools", row)
              /\ prov' = Append(prov,
                     Origin("bluebeam_tools", toolset_els[ts_idx + 1], item,
                            ts_idx, i))
              /\ tools_imported' = tools_imported + 1
              /\ cur' = [name |-> row.name, tool_kind |-> row.tool_kind,
                         style |-> row.style_json, tool_id |-> nextId]
              /\ pc' = "preset"
              /\ UNCHANGED <<i, warnings, abortCause>>
    /\ UNCHANGED <<xml_text, root, profile_id, toolset_els, ts_idx, title,
                   toolset_id, items, toolsets_imported, presets_created,
                   summary, request>>

\* an item loop that never hands back to the toolset loop
ItemsDoneNever ==
    /\ pc = "item"
    /\ i >= Len(items)
    /\ UNCHANGED vars

\* line 194: the item loop is exhausted, the toolset loop goes on
ItemsDone ==
    /\ pc = "item"
    /\ i >= Len(items)
    /\ ts_idx' = ts_idx + 1
    /\ pc' = "toolset"
    /\ UNCHANGED <<xml_text, root, profile_id, toolset_els, title, toolset_id,
                   items, i, cur, counters, warnings, store, summary,
                   abortCause, request>>

\* an except clause that would take the Tool back
PresetRefusedRollback ==
    /\ calls' = Append(calls, Call("insert", "presets", FALSE))
    /\ db' = [db EXCEPT !["bluebeam_tools"] = SubSeq(@, 1, Len(@) - 1)]
    /\ tools_imported' = tools_imported - 1
    /\ warnings' = Append(warnings, PresetWarning(cur.name))
    /\ UNCHANGED <<presets_created, nextId, prov>>

\* an except clause that would count the attempted Preset
PresetRefusedCounted ==
    /\ Refused("presets")
    /\ warnings' = Append(warnings, PresetWarning(cur.name))
    /\ presets_created' = presets_created + 1
    /\ UNCHANGED <<tools_imported, prov>>

\* lines 236-237: the except clause of the Preset insert
PresetRefused ==
    /\ Refused("presets")
    /\ warnings' = Append(warnings, PresetWarning(cur.name))
    /\ UNCHANGED <<presets_created, tools_imported, prov>>

\* lines 222-237
PresetStep ==
    /\ pc = "preset"
    /\ \/ /\ Stored("presets",
                PresetRow(cur.name, cur.tool_kind, title, cur.style, ts_idx, i,
                          cur.tool_id))
          /\ prov' = Append(prov,
                 Origin("presets", toolset_els[ts_idx + 1], items[i + 1],
                        ts_idx, i))
          /\ presets_created' = presets_created + 1
          /\ UNCHANGED <<warnings, tools_imported>>
       \/ PresetRefused
    /\ i' = i + 1
    /\ pc' = "item"
    /\ UNCHANGED <<xml_text, root, profile_id, toolset_els, ts_idx, title,
                   toolset_id, items, cur, toolsets_imported, summary,
                   abortCause, request>>

\* lines 239-246
Summarize ==
    /\ pc = "toolset"
    /\ ts_idx >= Len(toolset_els)
    /\ summary' = [returned |-> TRUE, profileId |-> profile_id,
                   toolsetCount |-> toolsets_imported,
                   toolCount |-> tools_imported,
                   presetCount |-> presets_created,
                   missingReferences |-> <<>>, warnings |-> warnings]
    /\ pc' = "done"
    /\ UNCHANGED <<locals, counters, warnings, store, abortCause, request>>

Next ==
    \/ CheckAuth
    \/ Download
    \/ CreateProfile
    \/ Parse
    \/ ToolsetStep
    \/ ItemStep
    \/ ItemsDone
    \/ PresetStep
    \/ Summarize

Spec == Init /\ [][Next]_vars

----------------------------------------------------------------------------
(* Vocabulary of the properties *)

Profiles == db["bluebeam_profiles"]
Toolsets == db["bluebeam_toolsets"]
Tools == db["bluebeam_tools"]
Presets == db["presets"]

InsertCall(table, ok) == Call("insert", table, ok)
NumCalls(table, ok) ==
    Cardinality({k \in DOMAIN calls : calls[k] = InsertCall(table, ok)})
LastCallIs(c) == calls # <<>> /\ calls[Len(calls)] = c
NumWarnings(kind) ==
    Cardinality({k \in DOMAIN warnings : warnings[k].kind = kind})

\* zero-based position of toolset element t among the toolset elements
TsIndexOf(doc, t) == Cardinality({m \in 1..(t - 1) : doc[m].kind = "ts"})

\* the title the run resolves for toolset element t
ElTitle(doc, t) == ResolveTitle(doc[t].hex, TsIndexOf(doc, t))

Parsed == pc \in {"toolset", "item", "preset", "done"}
             \/ (pc = "aborted" /\ abortCause \in {"toolset", "extract", "tool"})

----------------------------------------------------------------------------
(* C1: a refused Tool insert does not abort the run: a warning is appended, *)
(* no Preset insert is attempted for the item, the next item is processed   *)
(* and the run still returns a summary.                                     *)

C1_ToolInsertFailureIsNotFatal ==
    /\ abortCause # "tool"
    /\ LastCallIs(InsertCall("bluebeam_tools", FALSE)) =>
          /\ pc \in {"item", "toolset", "done"}
          /\ warnings # <<>>

(* C2: extraction never aborts the import: extract_pdf_dict_fields returns  *)
(* normally for every decoded payload, a present style key with malformed   *)
(* numeric text being omitted, and import_bpx goes on to the summary.       *)

C2_ExtractionNeverAborts ==
    /\ abortCause # "extract"
    /\ Parsed =>
         \A n \in DOMAIN Root :
            (Root[n].kind = "item" /\ ~DecodeRaises(Root[n].hex)) =>
                ~ExtractRaises(decode_hex_zlib(Root[n].hex))

(* C3 as stated: the document is parsed before the Profile is created: no   *)
(* record-store insert is issued before the parse has succeeded, and a run  *)
(* that aborts on malformed XML has created zero records.                   *)

C3_NoInsertBeforeParse ==
    ~Parsed =>
        /\ \A k \in DOMAIN calls : calls[k].op # "insert"
        /\ \A t \in Tables : db[t] = <<>>

(* C3 amended: the Profile is created before the document is parsed; no     *)
(* Toolset, Tool or Preset insert is issued before the parse has succeeded, *)
(* and a run that aborts on malformed XML has created exactly one record,   *)
(* the Profile.                                                             *)

C3_OnlyProfileBeforeParse ==
    /\ ~Parsed =>
         /\ \A k \in DOMAIN calls :
               calls[k].op = "insert" => calls[k].table = "bluebeam_profiles"
         /\ Toolsets = <<>> /\ Tools = <<>> /\ Presets = <<>>
    /\ pc = "parse" => Len(Profiles) = 1
    /\ (pc = "aborted" /\ abortCause = "parse") =>
         /\ Len(Profiles) = 1
         /\ calls = <<Call("download", "storage", TRUE),
                      InsertCall("bluebeam_profiles", TRUE)>>

C3_Witness ==
    /\ pc = "aborted"
    /\ abortCause = "parse"
    /\ ~xml_text.wellformed
    /\ Len(Profiles) = 1

(* C4: for every toolset element, at any depth, whose resolved title is an  *)
(* exclusion name, no Toolset record is created for it and no Tool or       *)
(* Preset record is created from a tool element that lies under it.         *)

ExcludedEl(doc, t) == Excluded(ElTitle(doc, t))

C4_NothingFromExcludedToolsets ==
    \A id \in DOMAIN prov :
        /\ prov[id].table = "bluebeam_toolsets" =>
               ~ExcludedEl(Root, prov[id].ts_el)
        /\ prov[id].table \in {"bluebeam_tools", "presets"} =>
               \A t \in Ancestors(Root, prov[id].item_el) : ~ExcludedEl(Root, t)

(* C5 as stated: the sort_index of every created Tool is the zero-based      *)
(* position of its element among the tool elements of the same toolset      *)
(* that have a non-empty raw payload, and is unique within the Toolset.     *)

\* tool elements of the toolset that precede element n and satisfy Keep
Before(doc, ts, n, Keep(_)) ==
    Cardinality({m \in 1..(n - 1) :
        doc[m].kind = "item" /\ ts \in Ancestors(doc, m) /\ Keep(doc[m].hex)})

NonEmptyRaw(h) == ~Falsy(h)
AnyRaw(h) == TRUE

UniqueWithinToolset ==
    \A a, b \in DOMAIN Tools :
        (a # b /\ Tools[a].toolset_id = Tools[b].toolset_id) =>
            Tools[a].sort_index # Tools[b].sort_index

C5_SortIndexAmongNonEmpty ==
    /\ \A a \in DOMAIN Tools :
          LET o == prov[Tools[a].id]
          IN  Tools[a].sort_index = Before(Root, o.ts_el, o.item_el, NonEmptyRaw)
    /\ UniqueWithinToolset

(* C5 amended: the sort_index of every created Tool is the zero-based       *)
(* position of its element among all the tool elements found under the      *)
(* toolset element, those with an empty raw payload included, and is unique *)
(* within the Toolset.                                                      *)

C5_SortIndexAmongAllItems ==
    /\ \A a \in DOMAIN Tools :
          LET o == prov[Tools[a].id]
          IN  Tools[a].sort_index = Before(Root, o.ts_el, o.item_el, AnyRaw)
    /\ UniqueWithinToolset

C5_Witness ==
    \E a \in DOMAIN Tools :
        LET o == prov[Tools[a].id]
        IN  /\ Tools[a].sort_index = 1
            /\ Before(Root, o.ts_el, o.item_el, NonEmptyRaw) = 0

(* C6 as stated: the sort_index values of the Toolset records of a run are  *)
(* dense and zero-based: n created Toolsets carry exactly 0..n-1 in         *)
(* document order, whatever toolsets were excluded before them.             *)

C6_ToolsetSortIndexDense ==
    \A a \in DOMAIN Toolsets : Toolsets[a].sort_index = a - 1

(* C6 amended: the sort_index of a Toolset record is the zero-based         *)
(* position of its element among all the toolset elements of the document,  *)
(* excluded ones included; the values are strictly increasing in document   *)
(* order, hence unique, and leave a gap for every excluded toolset.         *)

C6_ToolsetSortIndexIsDocumentPosition ==
    /\ \A a \in DOMAIN Toolsets :
          Toolsets[a].sort_index = TsIndexOf(Root, prov[Toolsets[a].id].ts_el)
    /\ \A a, b \in DOMAIN Toolsets :
          a < b =>
             /\ prov[Toolsets[a].id].ts_el < prov[Toolsets[b].id].ts_el
             /\ Toolsets[a].sort_index < Toolsets[b].sort_index

C6_Witness ==
    /\ Len(Toolsets) = 1
    /\ Toolsets[1].sort_index = 1
    /\ ExcludedEl(Root, 1)

(* C7 as stated: Preset sort_index values are strictly increasing when the  *)
(* Presets are taken in (toolset index, tool index) order, and no two       *)
(* Presets share one, as long as every toolset has fewer than 1000 tools,   *)
(* however many empty-payload or skipped items it also contains.            *)

LexLess(o, q) == o.ts_idx < q.ts_idx \/ (o.ts_idx = q.ts_idx /\ o.i < q.i)

PresetsOrderedAndDistinct ==
    \A a, b \in DOMAIN Presets :
        /\ LexLess(prov[Presets[a].id], prov[Presets[b].id]) =>
               Presets[a].sort_index < Presets[b].sort_index
        /\ a # b => Presets[a].sort_index # Presets[b].sort_index

ToolsOf(tsid) == {a \in DOMAIN Tools : Tools[a].toolset_id = tsid}

C7_DistinctBelowThousandTools ==
    (\A t \in DOMAIN Toolsets :
        Cardinality(ToolsOf(Toolsets[t].id)) < PresetStride)
    => PresetsOrderedAndDistinct

(* C7 amended: Preset sort_index values are strictly increasing in (toolset *)
(* index, tool index) order and no two Presets share one, as long as every  *)
(* toolset has fewer than 1000 tool elements, the empty-payload and skipped *)
(* ones counted.                                                            *)

C7_DistinctBelowThousandItems ==
    (\A t \in DOMAIN toolset_els :
        Len(FindItems(Root, toolset_els[t])) < PresetStride)
    => PresetsOrderedAndDistinct

C7_Witness ==
    /\ \A t \in DOMAIN toolset_els :
          Len(FindItems(Root, toolset_els[t])) < PresetStride
    /\ \E a, b \in DOMAIN Presets :
          prov[Presets[a].id].ts_idx < prov[Presets[b].id].ts_idx

(* C8: a fatal error (download failure, malformed XML, refused Profile or   *)
(* Toolset insert) aborts the run at once: the failing call is the last     *)
(* call issued, no summary is returned, and the records created before the  *)
(* failure stay in the record store.                                        *)

FatalCalls ==
    {Call("download", "storage", FALSE),
     InsertCall("bluebeam_profiles", FALSE),
     InsertCall("bluebeam_toolsets", FALSE)}

RecordsInPlace == \A t \in Tables : Len(db[t]) = NumCalls(t, TRUE)

C8_FatalErrorAbortsAtOnce ==
    /\ \A k \in DOMAIN calls :
          calls[k] \in FatalCalls =>
             /\ k = Len(calls)
             /\ pc = "aborted"
             /\ abortCause \in {"download", "profile", "toolset"}
    /\ (/\ calls # <<>>
        /\ calls[1] = Call("download", "storage", TRUE)
        /\ ~xml_text.wellformed
        /\ pc \notin {"profile", "parse"}) =>
          /\ pc = "aborted"
          /\ \/ abortCause = "profile"
             \/ /\ abortCause = "parse"
                /\ LastCallIs(InsertCall("bluebeam_profiles", TRUE))
    /\ pc = "aborted" => summary = NoSummary
    /\ summary # NoSummary => pc = "done"
    /\ RecordsInPlace

C8_Witness ==
    /\ pc = "aborted"
    /\ abortCause = "toolset"
    /\ Len(Toolsets) = 1
    /\ Len(Profiles) = 1
    /\ LastCallIs(InsertCall("bluebeam_toolsets", FALSE))

(* C9 as stated: a tool payload that fails to decode leaves no Tool and no  *)
(* Preset, and every other item of the run is processed exactly as it would *)
(* be had the failing item been absent from the document (same records).    *)

FailingRaw(h) == DecodeRaises(h)
DecodableRaw(h) == ~DecodeRaises(h)

TitleOfToolset(tsid) ==
    Toolsets[CHOOSE t \in DOMAIN Toolsets : Toolsets[t].id = tsid].title

\* the Tool row of record a, rebuilt with its element at position idx
Rebuilt(a, idx) ==
    ("id" :> Tools[a].id) @@
        ToolRowFor(Root, Tools[a].toolset_id, TitleOfToolset(Tools[a].toolset_id),
                   prov[Tools[a].id].item_el, idx)

NothingFromFailingItems ==
    \A id \in DOMAIN prov :
        prov[id].table \in {"bluebeam_tools", "presets"} =>
            ~DecodeRaises(Root[prov[id].item_el].hex)

C9_OthersAsIfFailingItemAbsent ==
    /\ NothingFromFailingItems
    /\ \A a \in DOMAIN Tools :
          LET o == prov[Tools[a].id]
          IN  Tools[a] = Rebuilt(a, Before(Root, o.ts_el, o.item_el, DecodableRaw))

(* C9 amended: when decoding a tool payload fails, exactly one warning      *)
(* naming the toolset title and the item index is appended, no Tool and no  *)
(* Preset is created for the item, no counter changes and the loop moves to *)
(* the next item; every other item is processed exactly as it would be had  *)
(* the failing item carried an empty payload: the failing element still     *)
(* counts in the position that gives sort_index and the fallback name.      *)

DecodeFails ==
    /\ pc = "item"
    /\ i < Len(items)
    /\ DecodeRaises(Root[items[i + 1]].hex)

C9_OthersAsIfFailingItemEmpty ==
    /\ NothingFromFailingItems
    /\ tools_imported = Len(Tools)
    /\ presets_created = Len(Presets)
    /\ \A a \in DOMAIN Tools :
          LET o == prov[Tools[a].id]
          IN  Tools[a] = Rebuilt(a, Before(Root, o.ts_el, o.item_el, AnyRaw))

C9_DecodeFailureSkipsOnlyTheItem ==
    /\ [][DecodeFails =>
             /\ warnings' = Append(warnings,
                    [kind |-> "tool_decode", title |-> title, item |-> i])
             /\ db' = db
             /\ calls' = calls
             /\ UNCHANGED counters
             /\ pc' = "item"
             /\ i' = i + 1]_vars
    /\ []C9_OthersAsIfFailingItemEmpty

C9_Witness ==
    \E a \in DOMAIN Tools :
        LET o == prov[Tools[a].id]
        IN  /\ Before(Root, o.ts_el, o.item_el, FailingRaw) = 1
            /\ Tools[a].sort_index = 1
            /\ NumWarnings("tool_decode") = 1

(* C10: every created Tool has at most one Preset, and a refused Preset     *)
(* insert is recorded as exactly one warning, leaves the Tool in the store  *)
(* and the tool count as it was, and the loop goes on to the next item.     *)

PresetsOfTool(id) == {b \in DOMAIN Presets : Presets[b].bluebeam_tool_id = id}

AtMostOnePresetPerTool ==
    /\ \A a \in DOMAIN Tools : Cardinality(PresetsOfTool(Tools[a].id)) <= 1
    /\ \A b \in DOMAIN Presets :
          \E a \in DOMAIN Tools : Tools[a].id = Presets[b].bluebeam_tool_id
    /\ NumWarnings("preset") = NumCalls("presets", FALSE)
    /\ tools_imported = NumCalls("bluebeam_tools", TRUE)
    /\ Len(Tools) = tools_imported

PresetRefusedNow ==
    /\ pc = "preset"
    /\ calls' = Append(calls, InsertCall("presets", FALSE))

C10_PresetFailureKeepsTool ==
    /\ []AtMostOnePresetPerTool
    /\ [][PresetRefusedNow =>
             /\ warnings' = Append(warnings,
                    [kind |-> "preset", name |-> cur.name,
                     err |-> "Insert presets failed"])
             /\ db' = db
             /\ UNCHANGED counters
             /\ pc' = "item"
             /\ i' = i + 1]_vars

C10_Witness ==
    /\ pc = "done"
    /\ NumCalls("presets", FALSE) = 1
    /\ Len(Tools) = 2
    /\ Len(Presets) = 1
    /\ Presets[1].bluebeam_tool_id = Tools[2].id
    /\ summary.toolCount = 2

(* C11: records are created in dependency order.  A Toolset insert is       *)
(* issued only after the Profile insert has succeeded and carries that      *)
(* Profile's id; a Tool insert is issued only after the insert of the       *)
(* Toolset it references has succeeded; a Preset insert is issued only      *)
(* right after the insert of its owning Tool has succeeded, and the Preset  *)
(* carries that Tool's id.                                                  *)

IssuedTo(table) == {k \in DOMAIN calls : calls[k].table = table}

SucceededBefore(table, k) ==
    \E j \in 1..(k - 1) : calls[j] = InsertCall(table, TRUE)

\* some row of the table has this id, generated before id `later`
CreatedBefore(rows, id, later) ==
    /\ id < later
    /\ \E r \in DOMAIN rows : rows[r].id = id

C11_DependencyOrder ==
    /\ \A k \in IssuedTo("bluebeam_toolsets") :
          SucceededBefore("bluebeam_profiles", k)
    /\ \A k \in IssuedTo("bluebeam_tools") :
          SucceededBefore("bluebeam_toolsets", k)
    /\ \A k \in IssuedTo("presets") :
          k > 1 /\ calls[k - 1] = InsertCall("bluebeam_tools", TRUE)
    /\ \A t \in DOMAIN Toolsets :
          CreatedBefore(Profiles, Toolsets[t].profile_id, Toolsets[t].id)
    /\ \A a \in DOMAIN Tools :
          CreatedBefore(Toolsets, Tools[a].toolset_id, Tools[a].id)
    /\ \A b \in DOMAIN Presets :
          /\ CreatedBefore(Tools, Presets[b].bluebeam_tool_id, Presets[b].id)
          /\ Presets[b].bluebeam_tool_id + 1 = Presets[b].id
    /\ pc = "preset" =>
          /\ Tools # <<>>
          /\ cur.tool_id = Tools[Len(Tools)].id
          /\ LastCallIs(InsertCall("bluebeam_tools", TRUE))

C11_Witness ==
    /\ pc = "done"
    /\ Len(Profiles) = 1
    /\ Len(Toolsets) = 2
    /\ Len(Tools) = 1
    /\ Len(Presets) = 1
    /\ Tools[1].toolset_id = Toolsets[1].id
    /\ Toolsets[2].id > Presets[1].id

(* C12: an item whose type token classifies as skip produces no Tool        *)
(* record, no Preset record and no warning, and leaves the tool and preset  *)
(* counters unchanged.                                                      *)

\* the token's last segment, lowercased, is in the exclusion set
SkipToken(it) == it # NoToken /\ Lower(it[Len(it)]) \in SKIP_TYPES

\* a payload that decodes to a text whose type token is a skip token
SkipPayload(h) ==
    ~Falsy(h) /\ ~DecodeRaises(h) /\ SkipToken(ExtractIt(decode_hex_zlib(h)))

AtSkipItem ==
    /\ pc = "item"
    /\ i < Len(items)
    /\ SkipPayload(Root[items[i + 1]].hex)

NothingFromSkipItems ==
    \A id \in DOMAIN prov :
        prov[id].table \in {"bluebeam_tools", "presets"} =>
            ~SkipPayload(Root[prov[id].item_el].hex)

C12_SkipItemLeavesNoTrace ==
    /\ []NothingFromSkipItems
    /\ [][AtSkipItem =>
             /\ db' = db
             /\ calls' = calls
             /\ warnings' = warnings
             /\ UNCHANGED counters
             /\ \/ pc' = "item" /\ i' = i + 1
                \/ pc' = "aborted" /\ abortCause' = "extract"]_vars

C12_Witness ==
    /\ pc = "done"
    /\ summary.warnings = <<>>
    /\ summary.toolCount = 1
    /\ summary.presetCount = 1
    /\ Len(items) = 2
    /\ SkipPayload(Root[items[1]].hex)
    /\ Tools[1].sort_index = 1

(* C13: in a run where no collaborator call and no decode fails, the        *)
(* summary reports toolsetCount = the number of toolset elements whose      *)
(* title is not excluded, toolCount = the number of item elements with a    *)
(* non-empty payload in those toolsets whose classification is not skip,    *)
(* presetCount = toolCount, and an empty warnings list.                     *)

AllCallsOk == \A k \in DOMAIN calls : calls[k].ok

NoDecodeFails == \A n \in DOMAIN Root : ~DecodeRaises(Root[n].hex)

ImportedToolsetEls ==
    {t \in DOMAIN Root :
        Root[t].kind = "ts" /\ ~Excluded(ElTitle(Root, t))}

\* item elements with a non-empty payload, not classified skip, that lie in
\* a toolset element whose title is not excluded
ImportedItemEls ==
    {n \in DOMAIN Root :
        /\ Root[n].kind = "item"
        /\ Ancestors(Root, n) \cap ImportedToolsetEls # {}
        /\ ~Falsy(Root[n].hex)
        /\ map_tool_kind(ExtractIt(decode_hex_zlib(Root[n].hex))) # "skip"}

C13_SummaryCountsElements ==
    (pc = "done" /\ AllCallsOk /\ NoDecodeFails) =>
        /\ summary.toolsetCount = Cardinality(ImportedToolsetEls)
        /\ summary.toolCount = Cardinality(ImportedItemEls)
        /\ summary.presetCount = summary.toolCount
        /\ summary.warnings = <<>>

----------------------------------------------------------------------------
(* map_tool_kind on its own: one call, with the argument and the result in  *)
(* cur; every other variable keeps its initial value.                       *)

MaxSegments == 2       \* dot-separated segments of a type token

\* spellings of a segment: those of LowerTable, lowercase ones, and ""
Spellings == DOMAIN LowerTable \cup {"annotationcircle", "annotationarea", ""}

\* type tokens as their segments: None (NoToken) and it.split(".")
Tokens == UNION {[1..n -> Spellings] : n \in 0..MaxSegments}

KindCall(it) == [it |-> it, tool_kind |-> "pending"]

KindInit ==
    /\ pc = "map_tool_kind"
    /\ cur \in {KindCall(it) : it \in Tokens}
    /\ apiKey = ""
    /\ authorization = ""
    /\ xml_text = Malformed
    /\ root = NoDoc
    /\ profile_id = 0
    /\ toolset_els = <<>>
    /\ ts_idx = 0
    /\ title = EmptyText
    /\ toolset_id = 0
    /\ items = <<>>
    /\ i = 0
    /\ toolsets_imported = 0
    /\ tools_imported = 0
    /\ presets_created = 0
    /\ warnings = <<>>
    /\ db = [t \in Tables |-> <<>>]
    /\ nextId = 1
    /\ calls = <<>>
    /\ prov = <<>>
    /\ summary = NoSummary
    /\ abortCause = "none"

Classify ==
    /\ pc = "map_tool_kind"
    /\ cur' = [cur EXCEPT !.tool_kind = map_tool_kind(cur.it)]
    /\ pc' = "returned"
    /\ UNCHANGED <<xml_text, root, profile_id, toolset_els, ts_idx, title,
                   toolset_id, items, i, counters, warnings, store, summary,
                   abortCause, request>>

KindNext == Classify

KindSpec == KindInit /\ [][KindNext]_vars

(* C14: map_tool_kind is a function of the lowercased last dot-separated    *)
(* segment of the token: an absent token gives count; a segment in the      *)
(* exclusion set gives skip whatever its letter case and whatever dotted    *)
(* prefix precedes it; a segment in the mapping table gives its mapped      *)
(* kind; every other segment gives count; exclusion is tested first.        *)

\* the kind the tables of lines 82-102 give a lowercased segment
KindOfSegment(seg) ==
    IF seg \in {"annotationbrxstamp", "annotationcircle", "annotationimage",
                "annotationstamp", "annotationfreetext", "annotationcallout"}
    THEN "skip"
    ELSE IF seg \in {"annotationpolyline", "annotationline", "annotationlength",
                     "annotationmeasureperimeter"}
    THEN "length"
    ELSE IF seg \in {"annotationpolygon", "annotationarea",
                     "annotationrectangle", "annotationsquare"}
    THEN "area"
    ELSE "count"

C14_KindOfLastSegment ==
    pc = "returned" =>
        /\ cur.it = NoToken => cur.tool_kind = "count"
        /\ cur.it # NoToken =>
              LET seg == Lower(cur.it[Len(cur.it)])
              IN  /\ cur.tool_kind = KindOfSegment(seg)
                  /\ cur.tool_kind = map_tool_kind(<<seg>>)
                  /\ seg \in SKIP_TYPES => cur.tool_kind = "skip"
                  /\ (seg \notin SKIP_TYPES /\ seg \in DOMAIN TYPE_MAP) =>
                        cur.tool_kind = TYPE_MAP[seg]
                  /\ (seg \notin SKIP_TYPES /\ seg \notin DOMAIN TYPE_MAP) =>
                        cur.tool_kind = "count"

C14_Witness ==
    /\ pc = "returned"
    /\ cur.it = <<"AnnotationPolygon", "ANNOTATIONSTAMP">>
    /\ cur.tool_kind = "skip"

(* C15: a request whose Authorization header is not exactly "Bearer "       *)
(* followed by the configured secret is rejected before any work begins: no *)
(* download and no record-store call is issued.  With no secret configured  *)
(* every request is rejected, also one that sends "Bearer " and an empty    *)
(* token.                                                                   *)

HeaderMatches == authorization = "Bearer " \o apiKey

NoWorkDone ==
    /\ calls = <<>>
    /\ \A t \in Tables : db[t] = <<>>
    /\ summary = NoSummary
    /\ pc \in {"auth", "rejected"}

C15_UnauthorizedDoesNothing ==
    /\ []((apiKey = "" \/ ~HeaderMatches) => NoWorkDone)
    /\ [][(pc = "auth" /\ (apiKey = "" \/ ~HeaderMatches)) =>
              pc' = "rejected"]_vars

C15_Witness ==
    /\ pc = "rejected"
    /\ apiKey = ""
    /\ authorization = "Bearer "
    /\ calls = <<>>

----------------------------------------------------------------------------
(* The handler runs to completion: every collaborator call returns or       *)
(* raises, and the interpreter takes the next step whenever there is one.   *)

\* sb_download returns or raises
Downloaded == pc = "download" /\ pc' \in {"profile", "aborted"}

\* the steps of import_bpx other than the download
Proceeds ==
    \/ CheckAuth
    \/ CreateProfile
    \/ Parse
    \/ ToolsetStep
    \/ ItemStep
    \/ ItemsDone
    \/ PresetStep
    \/ Summarize

MaxLiveNodes == 2      \* elements of an enumerated document, in LiveSpec

LiveNext == DownloadUpTo(MaxLiveNodes) \/ Proceeds

LiveSpec ==
    Init /\ [][LiveNext]_vars /\ WF_pc(Downloaded) /\ WF_vars(Proceeds)

(* C16: whatever the document and whichever collaborator calls succeed or   *)
(* fail, a run that has begun its work eventually reaches a terminal state, *)
(* Summarized (pc = "done") or Aborted (pc = "aborted"); it never leaves    *)
(* that state, and a summary is returned exactly when the run is            *)
(* Summarized.                                                              *)

Summarized == pc = "done"
Aborted == pc = "aborted"

C16_RunTerminates ==
    /\ (pc = "download") ~> (Summarized \/ Aborted)
    /\ [][(Summarized \/ Aborted) => pc' = pc]_vars
    /\ [](summary # NoSummary <=> Summarized)

C16_Witness ==
    /\ Summarized
    /\ summary.returned
    /\ NumCalls("presets", FALSE) = 1
    /\ summary.toolCount = 1
    /\ summary.presetCount = 0

(* C17 as stated: every run, successful or aborted, creates exactly one new *)
(* Profile and issues no delete or update against the record store.         *)

OnlyDownloadAndInsert ==
    \A k \in DOMAIN calls : calls[k].op \in {"download", "insert"}

C17_ExactlyOneProfileInEveryRun ==
    /\ OnlyDownloadAndInsert
    /\ (Summarized \/ Aborted) => Len(Profiles) = 1

(* C17 amended: a run never issues a delete or update, and every step       *)
(* leaves the rows already in the record store as they are (a table only    *)
(* grows at its end).  A run creates at most one Profile: exactly one once  *)
(* its Profile insert has succeeded, which is the case in every summarized  *)
(* run and in every run aborted after that point, and none when the         *)
(* download or the Profile insert itself fails.                             *)

RowsKept ==
    \A t \in Tables :
        /\ Len(db'[t]) >= Len(db[t])
        /\ SubSeq(db'[t], 1, Len(db[t])) = db[t]

FailedBeforeProfile == Aborted /\ abortCause \in {"download", "profile"}

C17_AppendOnlyAtMostOneProfile ==
    /\ []OnlyDownloadAndInsert
    /\ [](Len(Profiles) = NumCalls("bluebeam_profiles", TRUE))
    /\ [](Len(Profiles) <= 1)
    /\ []((Summarized \/ (Aborted /\ ~FailedBeforeProfile)) => Len(Profiles) = 1)
    /\ [](FailedBeforeProfile => Len(Profiles) = 0)
    /\ [][RowsKept]_vars

C17_Witness ==
    /\ Summarized
    /\ Len(Profiles) = 1
    /\ Len(Toolsets) = 2
    /\ Len(Tools) = 1
    /\ Toolsets[1].id < Tools[1].id
    /\ Tools[1].id < Toolsets[2].id

(* C18: between the steps of a run each counter equals the number of        *)
(* successful inserts so far into its table (toolsets_imported: Toolsets,   *)
(* tools_imported: Tools, presets_created: Presets), presets_created never  *)
(* exceeds tools_imported, and in the returned summary toolCount minus      *)
(* presetCount is the number of preset-failure warnings.                    *)

PresetWarningsIn(ws) == Cardinality({k \in DOMAIN ws : ws[k].kind = "preset"})

ItemOf(a) == prov[Tools[a].id].item_el
ToolsetElOf(a) == prov[Tools[a].id].ts_el

C19_OneToolPerElementInNearestToolset ==
    /\ \A a, b \in DOMAIN Tools : ItemOf(a) = ItemOf(b) => a = b
    /\ \A a \in DOMAIN Tools : ToolsetElOf(a) = Root[ItemOf(a)].parent

(* C20: no Tool or Preset record is ever created from an item whose        *)
(* decoded payload text is empty: an item whose raw payload is empty, or is *)
(* whitespace only so that decode_hex_zlib returns the empty text without   *)
(* raising, is skipped with no record and no warning.                       *)

DecodesToEmpty(h) == ~DecodeRaises(h) /\ decode_hex_zlib(h) = EmptyText

C20_NothingFromEmptyText ==
    \A id \in DOMAIN prov :
        prov[id].table \in {"bluebeam_tools", "presets"} =>
            ~DecodesToEmpty(Root[prov[id].item_el].hex)

====
